---- MODULE Spec2Model ----
(***************************************************************************)
(* Model of scripts/scripts.js: the eager page pipeline (loadEager ->      *)
(* setConfig/getLocale -> decorateMain -> decorateSections -> groupChildren,*)
(* decorateLinks, handleSectionMetadata) as a state machine.               *)
(*                                                                         *)
(* Strings are sequences of atoms (indivisible pieces of text such as "/", *)
(* "de", "#_blank", "https://"); startsWith / endsWith / includes /        *)
(* replace are the corresponding operations on those sequences.            *)
(***************************************************************************)
EXTENDS Integers, Sequences, FiniteSets, TLC

VARIABLES
  location,     \* window.location: [origin, pathname]
  metaLocale,   \* content of <meta name="locale">, <<>> when absent
  conf,         \* the argument of setConfig: [hostnames, locales, widgets]
  config,       \* the module-level config of setConfig/getConfig
  docLang,      \* document.documentElement.lang
  sections,     \* the <div> children of <main>, in document order
  input,        \* the sections as authored (never changed)
  computedBg,   \* getComputedStyle(el).background of an element with an inline background
  pc,           \* position of loadEager
  cur,          \* index of the section decorateSections is mapping
  pass,         \* per section: how far its decoration pass has come
  microtasks,   \* continuations of handleSectionMetadata waiting behind `await`
  body,         \* document.body.classList
  wait,         \* the loadSection(..., waitForFirstImage) promise of loadEager
  log           \* what config.log recorded

vars == <<location, metaLocale, conf, config, docLang, sections, input,
          computedBg, pc, cur, pass, microtasks, body, wait, log>>

(***************************************************************************)
(* Bounds of the checked inputs.                                           *)
(***************************************************************************)
MaxChildren == 4
MaxSections == 2
MaxHash == 2
MaxAnchors == 2

(***************************************************************************)
(* String built-ins on atom sequences.                                     *)
(***************************************************************************)
AtomLen(x) ==
  CASE x = "/" -> 1
    [] x \in {"de", "ch", "fr"} -> 2
    [] x = "foo" -> 3
    [] x = "products" -> 8
    [] x = "fragments" -> 9
    [] OTHER -> 1

RECURSIVE StrLen(_)
StrLen(s) == IF s = <<>> THEN 0 ELSE AtomLen(Head(s)) + StrLen(Tail(s))

StartsWith(s, p) == Len(p) <= Len(s) /\ SubSeq(s, 1, Len(p)) = p

EndsWith(s, p) == Len(p) <= Len(s) /\ SubSeq(s, Len(s) - Len(p) + 1, Len(s)) = p

OccursAt(s, p, i) == i + Len(p) - 1 <= Len(s) /\ SubSeq(s, i, i + Len(p) - 1) = p

Includes(s, p) == \E i \in 1..(Len(s) + 1) : OccursAt(s, p, i)

IndexOf(s, p) ==
  CHOOSE i \in 1..(Len(s) + 1) :
    OccursAt(s, p, i) /\ \A j \in 1..(i - 1) : ~OccursAt(s, p, j)

\* String.prototype.replace with a string pattern: the first occurrence only
Replace(s, p, r) ==
  IF Includes(s, p)
  THEN LET i == IndexOf(s, p)
       IN SubSeq(s, 1, i - 1) \o r \o SubSeq(s, i + Len(p), Len(s))
  ELSE s

RECURSIVE ReplaceAll(_, _, _)
ReplaceAll(s, x, y) ==
  IF s = <<>> THEN <<>>
  ELSE <<IF Head(s) = x THEN y ELSE Head(s)>> \o ReplaceAll(Tail(s), x, y)

\* String.prototype.split on a one-atom separator
RECURSIVE Split(_, _)
Split(s, sep) ==
  IF \E i \in 1..Len(s) : s[i] = sep
  THEN LET i == CHOOSE k \in 1..Len(s) : s[k] = sep /\ \A j \in 1..(k - 1) : s[j] # sep
       IN <<SubSeq(s, 1, i - 1)>> \o Split(SubSeq(s, i + 1, Len(s)), sep)
  ELSE <<s>>

LowerAtom(x) ==
  CASE x = "Style" -> "style"
    [] x = "Background" -> "background"
    [] x = "Background-Image" -> "background-image"
    [] x = "-Brand" -> "-brand"
    [] x = "Dark" -> "dark"
    [] OTHER -> x

RECURSIVE ToLowerCase(_)
ToLowerCase(s) ==
  IF s = <<>> THEN <<>> ELSE <<LowerAtom(Head(s))>> \o ToLowerCase(Tail(s))

RECURSIVE Trim(_)
Trim(s) ==
  IF s # <<>> /\ Head(s) = " " THEN Trim(Tail(s))
  ELSE IF s # <<>> /\ s[Len(s)] = " " THEN Trim(SubSeq(s, 1, Len(s) - 1))
  ELSE s

(***************************************************************************)
(* URLs.                                                                   *)
(***************************************************************************)
Scheme == "https://"
\* the scheme of a URL without an authority, whose origin is opaque
Mailto == "mailto:"
MailAtoms == {"a@b.c"}
HostAtoms == {"localhost", "main--ams-xwalk--", "helms-charity.hlx.page",
              "www.youtube", ".com", "example.com"}
QueryAtoms == {"?q=1"}
HashAtoms == {"#top", "#_blank", "#_dnt", "#_dnb"}

\* index of the first atom of s that is in S, Len(s) + 1 when there is none
Find(s, S) ==
  IF \E i \in 1..Len(s) : s[i] \in S
  THEN CHOOSE i \in 1..Len(s) : s[i] \in S /\ \A j \in 1..(i - 1) : s[j] \notin S
  ELSE Len(s) + 1

\* whether `new URL(h)` succeeds: h must be absolute
CanParse(h) ==
  \/ Len(h) >= 2 /\ h[1] = Scheme /\ h[2] \in HostAtoms
  \/ Len(h) >= 1 /\ h[1] = Mailto

\* the parts of a URL behind its origin: pathname, search and hash
UrlRecord(origin, path, tail) ==
  LET he == Find(tail, HashAtoms)
  IN [origin |-> origin,
      hostname |-> Tail(origin),
      pathname |-> IF path = <<>> THEN <<"/">> ELSE path,
      search |-> SubSeq(tail, 1, he - 1),
      hash |-> SubSeq(tail, he, Len(tail))]

UrlParts(origin, rest) ==
  LET pe == Find(rest, QueryAtoms \cup HashAtoms)
  IN UrlRecord(origin, SubSeq(rest, 1, pe - 1), SubSeq(rest, pe, Len(rest)))

\* a URL without an authority: its origin serializes as "null", its
\* hostname is empty and its pathname is what follows the scheme
OpaqueRecord(path, tail) ==
  [UrlRecord(<<"null">>, path, tail) EXCEPT !.pathname = path]

OpaqueUrl(rest) ==
  OpaqueRecord(SubSeq(rest, 1, Find(rest, QueryAtoms \cup HashAtoms) - 1),
               SubSeq(rest, Find(rest, QueryAtoms \cup HashAtoms), Len(rest)))

HierUrl(h, oe) == UrlParts(SubSeq(h, 1, oe - 1), SubSeq(h, oe, Len(h)))

\* new URL(h) for a parseable h
URL(h) ==
  IF h # <<>> /\ h[1] = Mailto THEN OpaqueUrl(Tail(h))
  ELSE HierUrl(h, Find(h, {"/"} \cup QueryAtoms \cup HashAtoms))

\* URL.prototype.href
Href(url) ==
  IF url.origin = <<"null">>
  THEN <<Mailto>> \o url.pathname \o url.search \o url.hash
  ELSE url.origin \o url.pathname \o url.search \o url.hash

\* the `href` IDL attribute of an anchor whose content attribute is attr:
\* the attribute resolved against the document's location
HrefGet(attr, loc) ==
  IF attr = <<>> THEN <<>>
  ELSE IF attr[1] \in {Scheme, Mailto}
    THEN (IF CanParse(attr) THEN Href(URL(attr)) ELSE attr)
  ELSE IF attr[1] = "/" THEN loc.origin \o attr
  ELSE loc.origin \o loc.pathname \o attr

(***************************************************************************)
(* getLocale / setConfig.                                                  *)
(***************************************************************************)
\* the keys of `locales` the page path starts with, each followed by "/"
LocaleMatches(locales, pathname) ==
  {k \in DOMAIN locales : StartsWith(pathname, k \o <<"/">>)}

\* matches.sort((a, b) => b.length - a.length)?.[0] || ''
LongestMatch(matches) ==
  IF matches = {} THEN <<>>
  ELSE CHOOSE k \in matches : \A m \in matches : StrLen(m) <= StrLen(k)

\* getMetadata('locale') || longest match || ''
LocalePrefix(locales, pathname, meta) ==
  IF meta # <<>> THEN meta ELSE LongestMatch(LocaleMatches(locales, pathname))

\* getLocale: ok = FALSE when `locales[prefix].lang` throws a TypeError
getLocale(locales, pathname, meta) ==
  LET prefix == LocalePrefix(locales, pathname, meta)
  IN IF prefix \in DOMAIN locales
     THEN [ok |-> TRUE, prefix |-> prefix, lang |-> locales[prefix].lang]
     ELSE [ok |-> FALSE, prefix |-> prefix, lang |-> ""]

(***************************************************************************)
(* Link decoration. An anchor is [id, href, target, cls]; href is the      *)
(* content attribute, <<>> when the anchor has none.                       *)
(***************************************************************************)
\* findHash of decorateHash: strips `name` from a.href when the hash has it
findHash(a, hash, name, loc) ==
  IF Includes(hash, <<name>>)
  THEN [a EXCEPT !.href = Replace(HrefGet(a.href, loc), <<name>>, <<>>)]
  ELSE a

\* lines 382-383
findBlank(a, hash, loc) ==
  IF Includes(hash, <<"#_blank">>)
  THEN [findHash(a, hash, "#_blank", loc) EXCEPT !.target = "_blank"]
  ELSE a

decorateHash(a, url, loc) ==
  IF url.hash = <<>> \/ url.hash = <<"#">>
  THEN [a |-> a, dnt |-> FALSE, dnb |-> FALSE]
  ELSE [a |-> findHash(findHash(findBlank(a, url.hash, loc), url.hash, "#_dnt", loc),
                       url.hash, "#_dnb", loc),
        dnt |-> Includes(url.hash, <<"#_dnt">>),
        dnb |-> Includes(url.hash, <<"#_dnb">>)]

\* line 417: `${origin}${locale.prefix}${pathname}${search}${hash}`
LocalizedString(cfg, url) ==
  url.origin \o cfg.locale.prefix \o url.pathname \o url.search \o url.hash

\* line 417: new URL(...) of that string; threw = TRUE when it is no
\* absolute URL and the constructor throws a TypeError
LocalizedUrl(h) ==
  [ok |-> CanParse(h), threw |-> ~CanParse(h), url |-> URL(h)]

\* localizeUrl without the test for the other configured locales
localizeUrlOwnPrefixOnly(cfg, url) ==
  IF cfg.locale.prefix = <<>> THEN [ok |-> FALSE, threw |-> FALSE, url |-> url]
  ELSE IF StartsWith(url.pathname, cfg.locale.prefix \o <<"/">>)
    THEN [ok |-> FALSE, threw |-> FALSE, url |-> url]
  ELSE LocalizedUrl(LocalizedString(cfg, url))

\* localizeUrl: ok = FALSE stands for the null result, threw = TRUE for the
\* TypeError of line 417
localizeUrl(cfg, url) ==
  IF cfg.locale.prefix = <<>> THEN [ok |-> FALSE, threw |-> FALSE, url |-> url]
  ELSE IF StartsWith(url.pathname, cfg.locale.prefix \o <<"/">>)
    THEN [ok |-> FALSE, threw |-> FALSE, url |-> url]
  ELSE IF \E key \in DOMAIN cfg.locales :
            key # <<>> /\ StartsWith(url.pathname, key \o <<"/">>)
    THEN [ok |-> FALSE, threw |-> FALSE, url |-> url]
  ELSE LocalizedUrl(LocalizedString(cfg, url))

\* the last matching pattern instead of the first
LastWidget(widgets, href) ==
  IF \E i \in 1..Len(widgets) : Includes(href, widgets[i].pattern)
  THEN CHOOSE i \in 1..Len(widgets) :
         /\ Includes(href, widgets[i].pattern)
         /\ \A j \in (i + 1)..Len(widgets) : ~Includes(href, widgets[j].pattern)
  ELSE 0

\* the widgets.some(...) of decorateLink: the index of the first pattern the
\* href includes, 0 when none
FirstWidget(widgets, href) ==
  IF \E i \in 1..Len(widgets) : Includes(href, widgets[i].pattern)
  THEN CHOOSE i \in 1..Len(widgets) :
         /\ Includes(href, widgets[i].pattern)
         /\ \A j \in 1..(i - 1) : ~Includes(href, widgets[j].pattern)
  ELSE 0

\* the classes the widgets.some(...) callback adds for an href
WidgetClasses(widgets, href) ==
  LET i == FirstWidget(widgets, href)
  IN IF i = 0 THEN {} ELSE {widgets[i].key, "auto-block"}

\* hostnames.some((host) => url.hostname.endsWith(host))
HostMatch(cfg, url) ==
  \E i \in 1..Len(cfg.hostnames) : EndsWith(url.hostname, cfg.hostnames[i])

\* lines 433-436: the localization step of decorateLink
Localize(cfg, a, url, dnt) ==
  IF dnt THEN a
  ELSE LET localized == localizeUrl(cfg, url)
       IN IF localized.ok THEN [a EXCEPT !.href = Href(localized.url)] ELSE a

\* lines 438-446: the classes of the first matching widget, and the result
Classify(a, add) ==
  [a |-> [a EXCEPT !.cls = @ \cup add], ret |-> add # {}, threw |-> FALSE]

\* lines 437-447: decorateButtons finds no anchor below an anchor
AutoBlock(cfg, loc, a, dnb) ==
  Classify(a, IF dnb THEN {} ELSE WidgetClasses(cfg.widgets, HrefGet(a.href, loc)))

\* lines 432-447: when localizeUrl throws, the catch block is entered with
\* the anchor as decorateHash left it
AfterHash(cfg, loc, url, dh) ==
  IF ~dh.dnt /\ localizeUrl(cfg, url).threw
  THEN [a |-> dh.a, ret |-> FALSE, threw |-> TRUE]
  ELSE AutoBlock(cfg, loc, Localize(cfg, dh.a, url, dh.dnt), dh.dnb)

\* lines 429-430
StripHost(cfg, a, h0, url) ==
  IF HostMatch(cfg, url) THEN [a EXCEPT !.href = Replace(h0, url.origin, <<>>)] ELSE a

\* lines 429-447 for a parsed href
Decorate(cfg, a, loc, h0, url) ==
  AfterHash(cfg, loc, url, decorateHash(StripHost(cfg, a, h0, url), url, loc))

\* line 428 and the catch block
TryDecorate(cfg, a, loc, h0) ==
  IF ~CanParse(h0) THEN [a |-> a, ret |-> FALSE, threw |-> TRUE]
  ELSE Decorate(cfg, a, loc, h0, URL(h0))

\* decorateLink: [a: the anchor afterwards, ret: whether it is returned,
\* threw: whether the catch block ran]
decorateLink(cfg, a, loc) == TryDecorate(cfg, a, loc, HrefGet(a.href, loc))

(***************************************************************************)
(* The DOM. A node is [id, tag, cls, kids, a, rows, at]: cls its class     *)
(* list, kids its element children, a the anchors directly inside it, rows *)
(* the key/value rows of a section-metadata table, at its inline style and *)
(* data attributes. A section is [children, cls, background, dataset,      *)
(* widgets, blocks].                                                       *)
(***************************************************************************)
Node(id, tag, cls, kids, a, rows) ==
  [id |-> id, tag |-> tag, cls |-> cls, kids |-> kids, a |-> a, rows |-> rows,
   at |-> <<>>]

\* document.createElement('div') with a className, holding kids
Wrapper(name, kids) == Node(0, "DIV", {name}, kids, <<>>, <<>>)

IsMeta(child) == "section-metadata" \in child.cls

\* line 84: child.tagName === 'DIV' && child.className
IsBlockLike(child) == child.tag = "DIV" /\ child.cls # {}

\* line 82: the children that are no section-metadata element
Filtered(children) == SelectSeq(children, LAMBDA c : ~IsMeta(c))

\* hasBlocks without the className test
hasBlocksAnyDiv(children) == \E i \in 1..Len(children) : children[i].tag = "DIV"

hasBlocks(children) == \E i \in 1..Len(children) : IsBlockLike(children[i])

\* line 99: the type test of the grouping loop
isDiv(child) == child.tag = "DIV"

\* lines 98-110: the grouping loop
RECURSIVE GroupLoop(_, _)
GroupLoop(children, groups) ==
  IF children = <<>> THEN groups
  ELSE LET child == Head(children)
           n == Len(groups)
           fresh == n = 0 \/ (("block-content" \in groups[n].cls) # isDiv(child))
       IN IF fresh
          THEN GroupLoop(Tail(children),
                 Append(groups,
                   Wrapper(IF isDiv(child) THEN "block-content" ELSE "default-content",
                           <<child>>)))
          ELSE GroupLoop(Tail(children),
                 [groups EXCEPT ![n].kids = Append(@, child)])

groupChildren(section) ==
  LET children == Filtered(section.children)
  IN IF children = <<>> THEN <<>>
     ELSE IF ~hasBlocks(children) THEN <<Wrapper("default-content", children)>>
     ELSE GroupLoop(children, <<>>)

\* lines 480-483: the groups take their children out of the section and are
\* appended after what is left of it
GroupSection(section) ==
  LET groups == groupChildren(section)
  IN [section EXCEPT
        !.children = (IF groups = <<>> THEN section.children
                      ELSE SelectSeq(section.children, IsMeta) \o groups),
        !.cls = @ \cup {<<"section">>}]

(***************************************************************************)
(* decorateLinks over a section: every anchor, in document order.          *)
(***************************************************************************)
RECURSIVE DecorateNode(_, _, _)
DecorateNode(n, cfg, loc) ==
  [n EXCEPT
     !.a = [i \in 1..Len(n.a) |-> decorateLink(cfg, n.a[i], loc).a],
     !.kids = [i \in 1..Len(n.kids) |-> DecorateNode(n.kids[i], cfg, loc)]]

RECURSIVE Flat(_)
Flat(ss) == IF ss = <<>> THEN <<>> ELSE Head(ss) \o Flat(Tail(ss))

\* el.querySelectorAll('a') below a list of nodes
RECURSIVE AnchorsOf(_)
AnchorsOf(nodes) ==
  Flat([i \in 1..Len(nodes) |-> nodes[i].a \o AnchorsOf(nodes[i].kids)])

\* the reduce of decorateLinks: the ids of the anchors decorateLink returned
Decorated(anchors, cfg, loc) ==
  LET kept == SelectSeq(anchors, LAMBDA a : decorateLink(cfg, a, loc).ret)
  IN [i \in 1..Len(kept) |-> kept[i].id]

\* the config.log calls of the catch block, one pair per failing anchor
Logged(anchors, cfg, loc) ==
  LET bad == SelectSeq(anchors, LAMBDA a : decorateLink(cfg, a, loc).threw)
  IN [i \in 1..Len(bad) |-> bad[i].id]

\* line 487: section.querySelectorAll('.block-content > div[class]')
BlocksOf(children) ==
  Flat([i \in 1..Len(children) |->
          IF "block-content" \in children[i].cls
          THEN LET ks == SelectSeq(children[i].kids, IsBlockLike)
               IN [j \in 1..Len(ks) |-> ks[j].id]
          ELSE <<>>])

\* the section with decorateLinks left out
LinkSectionSkipped(section, cfg, loc) ==
  [section EXCEPT !.blocks = BlocksOf(section.children)]

\* lines 486-487
LinkSection(section, cfg, loc) ==
  [section EXCEPT
     !.children = [i \in 1..Len(section.children) |->
                     DecorateNode(section.children[i], cfg, loc)],
     !.widgets = Decorated(AnchorsOf(section.children), cfg, loc),
     !.blocks = BlocksOf(section.children)]

(***************************************************************************)
(* Colour scheme. A computed background is [fn, r, g, b]: fn = "rgb" for   *)
(* the form `rgb(r, g, b) ...` the regular expression of parseColor        *)
(* matches, any other fn for a form it does not match.                     *)
(***************************************************************************)
\* parseColor: ok = FALSE stands for null
parseColor(computed) ==
  IF computed.fn = "rgb"
  THEN [ok |-> TRUE, r |-> computed.r, g |-> computed.g, b |-> computed.b]
  ELSE [ok |-> FALSE, r |-> 0, g |-> 0, b |-> 0]

\* the gamma-corrected channel of getRelativeLuminance, in 1/10000
Linear(c) ==
  CASE c = 0 -> 0
    [] c = 128 -> 2159
    [] c = 255 -> 10000

\* getRelativeLuminance, in 1/100000000
getRelativeLuminance(rgb) ==
  2126 * Linear(rgb.r) + 7152 * Linear(rgb.g) + 722 * Linear(rgb.b)

\* getColorScheme: "" stands for null
getColorScheme(computed) ==
  LET rgb == parseColor(computed)
  IN IF ~rgb.ok THEN ""
     ELSE IF getRelativeLuminance(rgb) > 50000000 THEN "light-scheme"
     ELSE "dark-scheme"

\* lines 165-169 without the classList.remove
ReschemeAddOnly(el, scheme) == [el EXCEPT !.cls = @ \cup {scheme}]

\* lines 165-169 on one child
Rescheme(el, scheme) ==
  [el EXCEPT !.cls = (@ \ {"light-scheme", "dark-scheme"}) \cup {scheme}]

\* setColorScheme on the direct children of an element
setColorScheme(children, computed) ==
  LET scheme == getColorScheme(computed)
  IN IF scheme = "" THEN children
     ELSE [i \in 1..Len(children) |-> Rescheme(children[i], scheme)]

(***************************************************************************)
(* Section metadata. A row is [key, text, img]: the text of its first      *)
(* cell, the text of its second cell, and the src of the <img> in the      *)
(* second cell (<<>> when it holds none).                                  *)
(***************************************************************************)
Key(row) == Trim(ToLowerCase(row.key))

\* getSectionMetadata: key -> [text, img]; a later row replaces an earlier
\* one of the same key
RECURSIVE getSectionMetadata(_)
getSectionMetadata(rows) ==
  IF rows = <<>> THEN <<>>
  ELSE LET row == rows[Len(rows)]
           rest == getSectionMetadata(SubSeq(rows, 1, Len(rows) - 1))
       IN IF Key(row) # <<>>
          THEN (Key(row) :> [text |-> Trim(ToLowerCase(row.text)), img |-> row.img])
               @@ rest
          ELSE rest

\* metadata[key]?.text, <<>> when absent
TextOf(metadata, key) ==
  IF <<key>> \in DOMAIN metadata THEN metadata[<<key>>].text ELSE <<>>

\* extractImageUrl of metadata[key]?.content, <<>> for null
ImageOf(metadata, key) ==
  IF <<key>> \in DOMAIN metadata THEN metadata[<<key>>].img ELSE <<>>

\* handleStyle
handleStyle(text, section) ==
  LET styles == Split(text, ", ")
  IN [section EXCEPT
        !.cls = @ \cup {ReplaceAll(styles[i], " ", "-") : i \in 1..Len(styles)}]

\* handleLayout
handleLayout(text, section, type) ==
  IF text = <<>> \/ text = <<"0">> THEN section
  ELSE [section EXCEPT
          !.cls = @ \cup (IF type = "grid" THEN {<<"grid">>} ELSE {})
                    \cup {<<type, "-">> \o text}]

\* the colour text taken as it is, color-token not resolved
BackgroundValueRaw(color) == color

\* lines 254-256: the inline background a colour text stands for
BackgroundValue(color) ==
  IF StartsWith(color, <<"color-token">>)
  THEN <<"var(">> \o Replace(color, <<"color-token">>, <<"--color">>) \o <<")">>
  ELSE color

\* handleBackground on the section
handleBackground(text, section, computed) ==
  IF text = <<>> THEN section
  ELSE [section EXCEPT
          !.background = BackgroundValue(text),
          !.children = setColorScheme(@, computed)]

\* handleBackground on a block-content group
handleBackgroundBlock(text, group, computed) ==
  IF text = <<>> THEN group
  ELSE [group EXCEPT
          !.at = ("background" :> BackgroundValue(text)) @@ @,
          !.kids = setColorScheme(@, computed)]

\* createSource: the srcset of a <source>
createSource(src, width) ==
  [srcset |-> URL(src).pathname \o <<"?width=", width, "&format=webply&optimize=medium">>]

\* lines 216-245: the <picture class="bg-images"> with its sources and <img>
Picture(desktopUrl, mobileUrl) ==
  [Node(0, "PICTURE", {"bg-images"}, <<>>, <<>>, <<>>) EXCEPT
     !.at = [sources |->
               <<IF mobileUrl # <<>> THEN createSource(mobileUrl, "600")
                 ELSE createSource(desktopUrl, "899"),
                 createSource(desktopUrl, "1920")>>,
             img |-> IF mobileUrl # <<>> THEN mobileUrl ELSE desktopUrl]]

\* handleBackgroundImages on the section
handleBackgroundImages(desktopUrl, mobileUrl, section) ==
  IF desktopUrl = <<>> THEN section
  ELSE [section EXCEPT
          !.cls = @ \cup {<<"has-bg-images">>},
          !.children = <<Picture(desktopUrl, mobileUrl)>> \o @]

\* handleBackgroundImages on a block-content group
handleBackgroundImagesBlock(desktopUrl, mobileUrl, group) ==
  IF desktopUrl = <<>> THEN group
  ELSE [group EXCEPT
          !.cls = @ \cup {"has-bg-images"},
          !.kids = <<Picture(desktopUrl, mobileUrl)>> \o @]

specialKeys ==
  {<<"style">>, <<"grid">>, <<"gap">>, <<"spacing">>, <<"container">>,
   <<"background-image">>, <<"background-image-mobile">>, <<"background">>,
   <<"background-block">>, <<"background-block-image">>,
   <<"background-block-image-mobile">>, <<"object-fit-block">>,
   <<"object-position-block">>}

\* toCamelCase of aem.js on a metadata key
toCamelCase(key) ==
  IF key = <<"tracking", " ", "id">> THEN <<"trackingId">> ELSE key

\* lines 308-312: every other key becomes a data attribute of the section
CatchAll(metadata, section) ==
  LET keys == (DOMAIN metadata) \ specialKeys
  IN [section EXCEPT
        !.dataset = [c \in {toCamelCase(k) : k \in keys} |->
                       metadata[CHOOSE k \in keys : toCamelCase(k) = c].text] @@ @]

\* a data attribute of a block-content group, set when the text is there
SetData(group, name, text) ==
  IF text = <<>> THEN group ELSE [group EXCEPT !.at = (name :> text) @@ @]

\* lines 327-361 on one direct child of the section
BlockContent(metadata, child, computed) ==
  IF ~(child.tag = "DIV" /\ "block-content" \in child.cls) THEN child
  ELSE LET c1 == handleBackgroundBlock(TextOf(metadata, "background-block"),
                                       child, computed)
           c2 == handleBackgroundImagesBlock(
                   ImageOf(metadata, "background-block-image"),
                   ImageOf(metadata, "background-block-image-mobile"), c1)
           c3 == SetData(c2, "objectFit", TextOf(metadata, "object-fit-block"))
       IN SetData(c3, "objectPosition", TextOf(metadata, "object-position-block"))

\* el.remove()
RemoveEl(section, id) ==
  [section EXCEPT !.children = SelectSeq(@, LAMBDA c : ~(IsMeta(c) /\ c.id = id))]

\* handleSectionMetadata up to its `await` (line 297)
MetadataHead(section, metadata) ==
  IF TextOf(metadata, "style") # <<>>
  THEN handleStyle(TextOf(metadata, "style"), section)
  ELSE section

\* handleSectionMetadata after line 297, to el.remove()
MetadataRest(section, metadata, id, computed) ==
  LET s1 == handleLayout(TextOf(metadata, "grid"), section, "grid")
      s2 == handleLayout(TextOf(metadata, "gap"), s1, "gap")
      s3 == handleLayout(TextOf(metadata, "spacing"), s2, "spacing")
      s4 == handleLayout(TextOf(metadata, "container"), s3, "container")
      s5 == handleBackground(TextOf(metadata, "background"), s4, computed)
      s6 == CatchAll(metadata, s5)
      s7 == handleBackgroundImages(ImageOf(metadata, "background-image"),
                                   ImageOf(metadata, "background-image-mobile"), s6)
      s8 == [s7 EXCEPT !.children =
               [i \in 1..Len(s7.children) |->
                  BlockContent(metadata, s7.children[i], computed)]]
  IN RemoveEl(s8, id)

\* line 490: section.querySelector('.section-metadata'), 0 when there is none
SectionMeta(section) ==
  LET i == Find([k \in 1..Len(section.children) |->
                   IF IsMeta(section.children[k]) THEN "meta" ELSE "other"],
                {"meta"})
  IN IF i > Len(section.children) THEN 0 ELSE i

(***************************************************************************)
(* The configuration of lines 543-559 and the inputs of the checked pages. *)
(***************************************************************************)
hostnames == << <<"localhost">>, <<"helms-charity.hlx.page">> >>

widgets ==
  << [key |-> "fragment", pattern |-> <<"/", "fragments", "/">>],
     [key |-> "youtube", pattern |-> <<Scheme, "www.youtube">>] >>

\* the locales of line 545
locales == (<<>> :> [lang |-> "en"])

\* line 545 with '/de' and '/fr' (lines 547-549) configured as well
localesDeFr ==
  locales @@ (<<"/", "de">> :> [lang |-> "de"]) @@ (<<"/", "fr">> :> [lang |-> "fr"])

\* a configuration with nested prefixes and an entry without a lang
localesNested ==
  localesDeFr @@ (<<"/", "de", "/", "ch">> :> [lang |-> "de-CH"])
              @@ (<<"/", "products">> :> [lang |-> ""])

PageOrigin == <<Scheme, "main--ams-xwalk--", "helms-charity.hlx.page">>

Origins ==
  {<<>>, PageOrigin, <<Scheme, "www.youtube", ".com">>, <<Scheme, "example.com">>}

Paths ==
  {<<>>, <<"/", "products">>, <<"/", "de">>, <<"/", "de", "/", "products">>,
   <<"/", "fr", "/", "products">>, <<"/", "fragments", "/", "foo">>}

HashSeqs == UNION {[1..n -> HashAtoms] : n \in 0..MaxHash}

\* href attributes as authored; <<>> is an anchor without one
Hrefs ==
  {o \o p \o q \o h : o \in Origins, p \in Paths, q \in {<<>>, <<"?q=1">>},
                      h \in HashSeqs}
  \cup {<<Mailto>> \o m \o h : m \in {<<x>> : x \in MailAtoms}, h \in HashSeqs}
  \cup {<<Scheme>>}

SmallHrefs ==
  {<<>>, <<"/", "fragments", "/", "foo">>,
   <<Scheme, "www.youtube", ".com", "/", "fragments", "/", "foo">>,
   <<"/", "fragments", "/", "foo", "#_dnb">>, <<"/", "products", "#_blank">>,
   <<Mailto, "a@b.c", "#_blank">>}

Anchor(id, href) ==
  [id |-> id, href |-> href, target |-> "", cls |-> {}, aria |-> FALSE]

Section(children) ==
  [children |-> children, cls |-> {}, background |-> <<>>, dataset |-> <<>>,
   widgets |-> <<>>, blocks |-> <<>>]

Row(key, text, img) == [key |-> key, text |-> text, img |-> img]

ImgSrc == PageOrigin \o <<"/", "media_1.png">>

\* the metadata tables of the checked pages
RowSets ==
  { <<>>,
    <<Row(<<"Background">>, <<"color-token", "-Brand">>, <<>>)>>,
    <<Row(<<"Style">>, <<"Dark", ", ", "full", " ", "width">>, <<>>),
      Row(<<" ", "background">>, <<"color-token", "-brand">>, <<>>)>>,
    <<Row(<<"background">>, <<"color-token", "-brand">>, <<>>),
      Row(<<"Background-Image">>, <<>>, ImgSrc)>>,
    <<Row(<<"background">>, <<"red">>, <<>>),
      Row(<<"grid">>, <<"3">>, <<>>),
      Row(<<"tracking", " ", "id">>, <<"x1">>, <<>>),
      Row(<<"background-block">>, <<"color-token", "-brand">>, <<>>),
      Row(<<"background-block-image">>, <<>>, ImgSrc),
      Row(<<"object-fit-block">>, <<"cover">>, <<>>)>>,
    <<Row(<<"style">>, <<"dark">>, <<>>), Row(<<"gap">>, <<"0">>, <<>>)>> }

\* the kinds of element a section holds
Child(kind, id) ==
  CASE kind = "p" -> Node(id, "P", {}, <<>>, <<>>, <<>>)
    [] kind = "block" -> Node(id, "DIV", {"hero"}, <<>>, <<>>, <<>>)
    [] kind = "div" -> Node(id, "DIV", {}, <<>>, <<>>, <<>>)
    [] kind = "meta" -> Node(id, "DIV", {"section-metadata"}, <<>>, <<>>, <<>>)

Kinds == {"p", "block", "div", "meta"}

\* the sections of the page family: content with one link, a block, and a
\* metadata table
Shapes ==
  {Section(<<[Child("p", 1) EXCEPT !.a = <<Anchor(1, <<"/", "products", "#_blank">>)>>],
             Child("block", 2),
             [Child("meta", 3) EXCEPT !.rows = rows]>>) : rows \in RowSets}
  \cup {Section(<<Child("p", 1)>>)}

ComputedValues ==
  {[fn |-> "rgb", r |-> 255, g |-> 255, b |-> 255],
   [fn |-> "rgb", r |-> 0, g |-> 0, b |-> 128],
   [fn |-> "rgb", r |-> 128, g |-> 255, b |-> 0],
   [fn |-> "rgba", r |-> 0, g |-> 0, b |-> 0]}

SeqsUpTo(S, lo, hi) == UNION {[1..n -> S] : n \in lo..hi}

\* what loadPage finds before loadEager runs
Blank ==
  /\ config = [set |-> FALSE]
  /\ docLang = ""
  /\ input = sections
  /\ pc = "start"
  /\ cur = 0
  /\ pass = [i \in 1..Len(sections) |-> "raw"]
  /\ microtasks = <<>>
  /\ body = {}
  /\ wait = "none"
  /\ log = <<>>

\* pages that vary the links of one section and the configuration
InitLinks ==
  /\ location \in {[origin |-> PageOrigin, pathname |-> pn] :
                     pn \in {<<"/">>, <<"/", "de", "/", "products">>}}
  /\ metaLocale = <<>>
  /\ conf \in {[hostnames |-> hostnames, locales |-> locales, widgets |-> widgets],
               [hostnames |-> hostnames, locales |-> localesDeFr,
                widgets |-> <<widgets[2], widgets[1]>>]}
  /\ \E hs \in {<<h>> : h \in Hrefs} \cup SeqsUpTo(SmallHrefs, 2, MaxAnchors) :
       sections = <<Section(<<[Child("p", 1) EXCEPT
                                 !.a = [i \in 1..Len(hs) |-> Anchor(i, hs[i])]]>>)>>
  /\ computedBg \in {[fn |-> "rgb", r |-> 255, g |-> 255, b |-> 255]}
  /\ Blank

\* pages that vary the children of one section
InitGroups ==
  /\ location = [origin |-> PageOrigin, pathname |-> <<"/">>]
  /\ metaLocale = <<>>
  /\ conf = [hostnames |-> hostnames, locales |-> locales, widgets |-> widgets]
  /\ \E ks \in SeqsUpTo(Kinds, 0, MaxChildren) :
       sections = <<Section([i \in 1..Len(ks) |-> Child(ks[i], i)])>>
  /\ computedBg \in {[fn |-> "rgb", r |-> 255, g |-> 255, b |-> 255]}
  /\ Blank

\* pages that vary the sections, their metadata and the computed background
InitPage ==
  /\ location = [origin |-> PageOrigin, pathname |-> <<"/">>]
  /\ metaLocale = <<>>
  /\ conf = [hostnames |-> hostnames, locales |-> locales, widgets |-> widgets]
  /\ sections \in SeqsUpTo(Shapes, 1, MaxSections)
  /\ computedBg \in ComputedValues
  /\ Blank

\* pages that vary the path, the locale metadata and the configured locales
InitLocale ==
  /\ location \in {[origin |-> PageOrigin, pathname |-> pn] :
                     pn \in {<<"/">>, <<"/", "de">>, <<"/", "de", "/">>,
                             <<"/", "de", "/", "products">>,
                             <<"/", "de", "/", "ch", "/", "products">>,
                             <<"/", "products", "/", "foo">>}}
  /\ metaLocale \in {<<>>, <<"/", "de">>, <<"/", "fr">>, <<"/", "es">>}
  /\ conf \in {[hostnames |-> hostnames, locales |-> l, widgets |-> widgets] :
                 l \in {locales, localesDeFr, localesNested}}
  /\ sections = <<Section(<<[Child("p", 1) EXCEPT
                               !.a = <<Anchor(1, <<"/", "products">>)>>]>>)>>
  /\ computedBg \in {[fn |-> "rgb", r |-> 255, g |-> 255, b |-> 255]}
  /\ Blank

Init == InitLinks \/ InitGroups \/ InitPage \/ InitLocale

(***************************************************************************)
(* loadEager, step by step.                                                *)
(***************************************************************************)
\* line 598-599
Start ==
  /\ pc = "start"
  /\ docLang' = "en"
  /\ pc' = "setConfig"
  /\ UNCHANGED <<location, metaLocale, conf, config, sections, input, computedBg,
                 cur, pass, microtasks, body, wait, log>>

\* lines 600-602: setConfig, which calls getLocale; a TypeError in getLocale
\* rejects loadEager
SetConfig ==
  /\ pc = "setConfig"
  /\ LET locale == getLocale(conf.locales, location.pathname, metaLocale)
     IN IF locale.ok
        THEN /\ config' = [set |-> TRUE, hostnames |-> conf.hostnames,
                           locales |-> conf.locales, widgets |-> conf.widgets,
                           locale |-> [prefix |-> locale.prefix, lang |-> locale.lang]]
             /\ docLang' = IF locale.lang # "" THEN locale.lang ELSE docLang
             /\ pc' = "decorateMain"
        ELSE /\ pc' = "failed"
             /\ UNCHANGED <<config, docLang>>
  /\ UNCHANGED <<location, metaLocale, conf, sections, input, computedBg,
                 cur, pass, microtasks, body, wait, log>>

\* lines 584-587: decorateButtons, decorateIcons, decorateLinkedPictures and
\* buildAutoBlocks change nothing the model holds
MainHead ==
  /\ pc = "decorateMain"
  /\ pc' = "sections"
  /\ cur' = 1
  /\ UNCHANGED <<location, metaLocale, conf, config, docLang, sections, input,
                 computedBg, pass, microtasks, body, wait, log>>

\* lines 480-483 for the section being mapped
GroupStep ==
  /\ pc = "sections"
  /\ pass[cur] = "raw"
  /\ sections' = [sections EXCEPT ![cur] = GroupSection(@)]
  /\ pass' = [pass EXCEPT ![cur] = "grouped"]
  /\ UNCHANGED <<location, metaLocale, conf, config, docLang, input, computedBg,
                 pc, cur, microtasks, body, wait, log>>

\* lines 486-487 for the section being mapped
LinksStep ==
  /\ pc = "sections"
  /\ pass[cur] = "grouped"
  /\ sections' = [sections EXCEPT ![cur] = LinkSection(@, config, location)]
  /\ log' = log \o Logged(AnchorsOf(sections[cur].children), config, location)
  /\ pass' = [pass EXCEPT ![cur] = "linked"]
  /\ UNCHANGED <<location, metaLocale, conf, config, docLang, input, computedBg,
                 pc, cur, microtasks, body, wait>>

\* lines 490-495 for the section being mapped: handleSectionMetadata runs to
\* its end, or to the await of line 297, and the map goes on
MetaStep ==
  /\ pc = "sections"
  /\ pass[cur] = "linked"
  /\ LET section == sections[cur]
         m == SectionMeta(section)
         metadata == getSectionMetadata(section.children[m].rows)
         id == section.children[m].id
     IN IF m = 0
        THEN /\ pass' = [pass EXCEPT ![cur] = "done"]
             /\ UNCHANGED <<sections, microtasks>>
        ELSE IF TextOf(metadata, "style") # <<>>
        THEN /\ sections' = [sections EXCEPT ![cur] = MetadataHead(section, metadata)]
             /\ microtasks' = Append(microtasks, [section |-> cur, el |-> id])
             /\ pass' = [pass EXCEPT ![cur] = "awaiting"]
        ELSE /\ sections' = [sections EXCEPT ![cur] =
                               MetadataRest(section, metadata, id, computedBg)]
             /\ pass' = [pass EXCEPT ![cur] = "done"]
             /\ UNCHANGED microtasks
  /\ IF cur = Len(sections)
     THEN pc' = "blocks" /\ UNCHANGED cur
     ELSE cur' = cur + 1 /\ UNCHANGED pc
  /\ UNCHANGED <<location, metaLocale, conf, config, docLang, input, computedBg,
                 body, wait, log>>

\* a11yLinks on one node: every link gets an aria-label
RECURSIVE a11yLinks(_)
a11yLinks(n) ==
  [n EXCEPT
     !.a = [i \in 1..Len(n.a) |-> [n.a[i] EXCEPT !.aria = TRUE]],
     !.kids = [i \in 1..Len(n.kids) |-> a11yLinks(n.kids[i])]]

\* lines 589-590: decorateBlocks (of aem.js) and a11yLinks
MainTail ==
  /\ pc = "blocks"
  /\ sections' = [i \in 1..Len(sections) |->
                    [sections[i] EXCEPT !.children =
                       [k \in 1..Len(sections[i].children) |->
                          a11yLinks(sections[i].children[k])]]]
  /\ pc' = "appear"
  /\ UNCHANGED <<location, metaLocale, conf, config, docLang, input, computedBg,
                 cur, pass, microtasks, body, wait, log>>

\* line 606 left out
AppearOmitted ==
  /\ pc = "appear"
  /\ pc' = "loadSection"
  /\ UNCHANGED <<location, metaLocale, conf, config, docLang, sections, input,
                 computedBg, cur, pass, microtasks, body, wait, log>>

\* line 606
Appear ==
  /\ pc = "appear"
  /\ body' = body \cup {"appear"}
  /\ pc' = "loadSection"
  /\ UNCHANGED <<location, metaLocale, conf, config, docLang, sections, input,
                 computedBg, cur, pass, microtasks, wait, log>>

\* line 607: loadSection(first section, waitForFirstImage) is called and
\* loadEager suspends on its promise
LoadSectionCall ==
  /\ pc = "loadSection"
  /\ wait' = "pending"
  /\ pc' = "suspended"
  /\ UNCHANGED <<location, metaLocale, conf, config, docLang, sections, input,
                 computedBg, cur, pass, microtasks, body, log>>

\* the continuation of handleSectionMetadata behind the await of line 297:
\* a microtask, run once the synchronous part of the page load has ended
ResumeMeta ==
  /\ pc = "suspended"
  /\ microtasks # <<>>
  /\ LET t == Head(microtasks)
         section == sections[t.section]
         m == SectionMeta(section)
         metadata == getSectionMetadata(section.children[m].rows)
     IN /\ sections' = [sections EXCEPT ![t.section] =
                          MetadataRest(section, metadata, t.el, computedBg)]
        /\ pass' = [pass EXCEPT ![t.section] = "done"]
  /\ microtasks' = Tail(microtasks)
  /\ UNCHANGED <<location, metaLocale, conf, config, docLang, input, computedBg,
                 pc, cur, body, wait, log>>

\* the first image is ready, or the fallback of waitForFirstImage fired: the
\* promise of line 607 resolves and loadEager resumes
WaitDone ==
  /\ pc = "suspended"
  /\ microtasks = <<>>
  /\ wait = "pending"
  /\ wait' = "done"
  /\ pc' = "fonts"
  /\ UNCHANGED <<location, metaLocale, conf, config, docLang, sections, input,
                 computedBg, cur, pass, microtasks, body, log>>

\* lines 610-617
LoadFonts ==
  /\ pc = "fonts"
  /\ pc' = "done"
  /\ UNCHANGED <<location, metaLocale, conf, config, docLang, sections, input,
                 computedBg, cur, pass, microtasks, body, wait, log>>

Next ==
  \/ Start
  \/ SetConfig
  \/ MainHead
  \/ GroupStep
  \/ LinksStep
  \/ MetaStep
  \/ MainTail
  \/ Appear
  \/ LoadSectionCall
  \/ ResumeMeta
  \/ WaitDone
  \/ LoadFonts

Spec == Init /\ [][Next]_vars

(***************************************************************************)
(* setColorScheme on its own. It is exported and called again whenever a   *)
(* background has been set, so an element meets it with any markers left   *)
(* on its children and with any computed background. sections[1] is the    *)
(* element, computedBg what getComputedStyle gives for it at the call.     *)
(***************************************************************************)
\* the class lists a child can have before a call
MarkerSets == SUBSET {"light-scheme", "dark-scheme", "hero"}

SchemeInit ==
  /\ location = [origin |-> PageOrigin, pathname |-> <<"/">>]
  /\ metaLocale = <<>>
  /\ conf = [hostnames |-> hostnames, locales |-> locales, widgets |-> widgets]
  /\ \E cs \in SeqsUpTo(MarkerSets, 0, MaxChildren) :
       sections = <<Section([i \in 1..Len(cs) |->
                               Node(i, "DIV", cs[i], <<>>, <<>>, <<>>)])>>
  /\ computedBg \in ComputedValues
  /\ Blank

\* the background of the element is restyled between two calls
SetBackground ==
  /\ \E c \in ComputedValues \ {computedBg} : computedBg' = c
  /\ UNCHANGED <<location, metaLocale, conf, config, docLang, sections, input,
                 pc, cur, pass, microtasks, body, wait, log>>

\* lines 162-170: one call of setColorScheme(section)
SetColorSchemeCall ==
  /\ sections' = [sections EXCEPT ![1].children = setColorScheme(@, computedBg)]
  /\ UNCHANGED <<location, metaLocale, conf, config, docLang, input, computedBg,
                 pc, cur, pass, microtasks, body, wait, log>>

SchemeNext ==
  \/ SetBackground
  \/ SetColorSchemeCall

SchemeSpec == SchemeInit /\ [][SchemeNext]_vars

(***************************************************************************)
(* What the properties below read off a state.                             *)
(***************************************************************************)
Directives == {"#_blank", "#_dnt", "#_dnb"}

Schemes == {"light-scheme", "dark-scheme"}

\* the anchors of section i as authored, and as they are now
OrigAnchors(i) == AnchorsOf(input[i].children)

FinalAnchors(i) == AnchorsOf(sections[i].children)

\* decorateLinks has run on section i
LinksDone(i) == pass[i] \in {"linked", "awaiting", "done"}

\* two anchors agree on what decorateLink can change
SameLink(a, b) == a.href = b.href /\ a.target = b.target /\ a.cls = b.cls

\* decorateLink enters its catch block for anchor a
Failed(a) == decorateLink(config, a, location).threw

\* the parsed href of an anchor as the browser resolves it
Parsed(a) == URL(HrefGet(a.href, location))

Parses(a) == CanParse(HrefGet(a.href, location))

\* the groups groupChildren made in section i
GroupsOf(i) ==
  SelectSeq(sections[i].children,
            LAMBDA c : c.cls \cap {"block-content", "default-content"} # {})

\* the ids of the children held by a sequence of groups, concatenated
KidIds(groups) ==
  Flat([g \in 1..Len(groups) |->
          [k \in 1..Len(groups[g].kids) |-> groups[g].kids[k].id]])

Ids(nodes) == [k \in 1..Len(nodes) |-> nodes[k].id]

\* the children of section i as authored, metadata tables left out
Content(i) == Filtered(input[i].children)

\* no child is a DIV with a class
NoBlockLike(children) ==
  \A k \in 1..Len(children) : ~IsBlockLike(children[k])

\* the number of places where block-like and not block-like children meet
Transitions(children) ==
  Cardinality({k \in 1..(Len(children) - 1) :
                 IsBlockLike(children[k]) # IsBlockLike(children[k + 1])})

\* the metadata of section i as authored (of its first table)
HasTable(i) == SectionMeta(input[i]) # 0

Authored(i) == getSectionMetadata(input[i].children[SectionMeta(input[i])].rows)

\* some effect of handleSectionMetadata shows on section i
MetaTouched(i) ==
  \/ sections[i].cls \ {<<"section">>} # {}
  \/ sections[i].background # <<>>
  \/ sections[i].dataset # <<>>
  \/ Len(SelectSeq(sections[i].children, IsMeta))
       < Len(SelectSeq(input[i].children, IsMeta))

AfterDecorateMain == pc \in {"appear", "loadSection", "suspended", "fonts", "done"}

(***************************************************************************)
(* C1: sections are decorated one at a time: when the pass of a section    *)
(* has begun, the pass of every earlier section (grouping, links, metadata *)
(* up to the removal of the table) has ended, and all passes have ended    *)
(* when decorateSections hands over to the later steps of decorateMain.    *)
(***************************************************************************)
C1_PassesDoNotInterleave ==
  /\ \A i \in 1..Len(sections) :
       pass[i] # "raw" => \A j \in 1..(i - 1) : pass[j] = "done"
  /\ (pc = "blocks" \/ AfterDecorateMain) => \A i \in 1..Len(sections) : pass[i] = "done"

C3_GroupsFollowTransitions ==
  \A i \in 1..Len(sections) :
    (pass[i] # "raw" /\ Content(i) # <<>>) =>
      LET groups == GroupsOf(i)
      IN /\ Len(groups) = Transitions(Content(i)) + 1
         /\ \A g \in 1..(Len(groups) - 1) :
              ("block-content" \in groups[g].cls) # ("block-content" \in groups[g + 1].cls)
         /\ KidIds(groups) = Ids(Content(i))

(***************************************************************************)
(* C4 as claimed: a grouped section without block-like children has        *)
(* exactly one group, a default-content group holding all its children in  *)
(* order.                                                                  *)
(***************************************************************************)
C4_OneDefaultGroup ==
  \A i \in 1..Len(sections) :
    (pass[i] # "raw" /\ NoBlockLike(Content(i))) =>
      /\ Len(GroupsOf(i)) = 1
      /\ "default-content" \in GroupsOf(i)[1].cls
      /\ "block-content" \notin GroupsOf(i)[1].cls
      /\ KidIds(GroupsOf(i)) = Ids(Content(i))

(***************************************************************************)
(* C4 as amended: a grouped section that has at least one child besides    *)
(* metadata tables and no block-like child has exactly one group, a        *)
(* default-content group holding all those children in order; a section    *)
(* without such children gets no group.                                    *)
(***************************************************************************)
C4_OneDefaultGroupIfContent ==
  \A i \in 1..Len(sections) :
    (pass[i] # "raw" /\ NoBlockLike(Content(i))) =>
      IF Content(i) = <<>> THEN GroupsOf(i) = <<>>
      ELSE /\ Len(GroupsOf(i)) = 1
           /\ "default-content" \in GroupsOf(i)[1].cls
           /\ "block-content" \notin GroupsOf(i)[1].cls
           /\ KidIds(GroupsOf(i)) = Ids(Content(i))

C4_Witness ==
  \E i \in 1..Len(sections) :
    /\ pass[i] # "raw"
    /\ Len(Content(i)) >= 2
    /\ NoBlockLike(Content(i))
    /\ \E k \in 1..Len(Content(i)) : Content(i)[k].tag = "DIV"
    /\ Len(GroupsOf(i)) = 1

(***************************************************************************)
(* C5: after decorateLinks, an anchor whose fragment held #_blank, #_dnt   *)
(* or #_dnb (each at most once) has none of them left in its href, and     *)
(* #_blank has set its target to _blank.                                   *)
(***************************************************************************)
C5_DirectivesStripped ==
  \A i \in 1..Len(sections) :
    LinksDone(i) =>
      \A k \in 1..Len(OrigAnchors(i)) :
        LET a0 == OrigAnchors(i)[k]
            a1 == FinalAnchors(i)[k]
        IN (/\ Parses(a0)
            /\ \E d \in Directives : Includes(Parsed(a0).hash, <<d>>)
            /\ \A d \in Directives :
                 Cardinality({n \in 1..Len(Parsed(a0).hash) : Parsed(a0).hash[n] = d}) <= 1)
           => /\ \A d \in Directives : ~Includes(HrefGet(a1.href, location), <<d>>)
              /\ Includes(Parsed(a0).hash, <<"#_blank">>) => a1.target = "_blank"

C7_FirstWidgetOnly ==
  \A i \in 1..Len(sections) :
    LinksDone(i) =>
      /\ \A k \in 1..Len(OrigAnchors(i)) :
           LET a0 == OrigAnchors(i)[k]
               a1 == FinalAnchors(i)[k]
               href == HrefGet(a1.href, location)
               matching == {w \in 1..Len(config.widgets) :
                              Includes(href, config.widgets[w].pattern)}
               dnb == Parses(a0) /\ Includes(Parsed(a0).hash, <<"#_dnb">>)
           IN /\ a1.id = a0.id
              /\ IF ~dnb /\ matching # {} /\ ~Failed(a0)
                 THEN \E w \in matching :
                        /\ \A v \in matching : w <= v
                        /\ a1.cls \ a0.cls = {config.widgets[w].key, "auto-block"}
                 ELSE a1.cls = a0.cls
      /\ sections[i].widgets =
           Ids(SelectSeq(FinalAnchors(i), LAMBDA a : "auto-block" \in a.cls))

C7_Witness ==
  /\ LinksDone(1)
  /\ Len(FinalAnchors(1)) = 2
  /\ sections[1].widgets = <<2>>
  /\ Includes(HrefGet(FinalAnchors(1)[1].href, location), <<"/", "fragments", "/">>)
  /\ FinalAnchors(1)[1].cls = {}
  /\ Cardinality({w \in 1..Len(config.widgets) :
        Includes(HrefGet(FinalAnchors(1)[2].href, location),
                 config.widgets[w].pattern)}) = 2
  /\ FinalAnchors(1)[2].cls = {config.widgets[1].key, "auto-block"}

\* the text of the authored `background` row of section i starts with color-token
TokenBackground(i) ==
  HasTable(i) /\ StartsWith(TextOf(Authored(i), "background"), <<"color-token">>)

\* var(--color-<name>) for the authored text color-token-<name>
TokenVar(i) ==
  <<"var(", "--color">> \o Tail(TextOf(Authored(i), "background")) \o <<")">>

IsBgPicture(child) == child.tag = "PICTURE" /\ "bg-images" \in child.cls

Rewritten(i) ==
  \E k \in 1..Len(OrigAnchors(i)) :
    \/ FinalAnchors(i)[k].href # OrigAnchors(i)[k].href
    \/ FinalAnchors(i)[k].target # OrigAnchors(i)[k].target
    \/ FinalAnchors(i)[k].cls # OrigAnchors(i)[k].cls

\* every anchor of section i is as decorateLink leaves it
AllDecorated(i) ==
  \A k \in 1..Len(OrigAnchors(i)) :
    LET want == decorateLink(config, OrigAnchors(i)[k], location).a
        have == FinalAnchors(i)[k]
    IN have.href = want.href /\ have.target = want.target /\ have.cls = want.cls

(***************************************************************************)
(* C9 as claimed: no anchor of a section is rewritten by link decoration   *)
(* before the section's metadata table has been interpreted and removed.   *)
(***************************************************************************)
C9_MetadataBeforeLinks ==
  \A i \in 1..Len(sections) :
    (HasTable(i) /\ Rewritten(i)) =>
      /\ pass[i] = "done"
      /\ Len(SelectSeq(sections[i].children, IsMeta))
           < Len(SelectSeq(input[i].children, IsMeta))

(***************************************************************************)
(* C9 as amended: within the decoration of one section the steps occur in  *)
(* the order Child Grouper, Link Decorator, Metadata Interpreter: no       *)
(* anchor is rewritten before the section is grouped, and no effect of the *)
(* metadata table shows on the section before all its anchors have been    *)
(* decorated.                                                              *)
(***************************************************************************)
C9_LinksBeforeMetadata ==
  \A i \in 1..Len(sections) :
    /\ Rewritten(i) => (<<"section">> \in sections[i].cls /\ pass[i] # "raw")
    /\ MetaTouched(i) => (LinksDone(i) /\ AllDecorated(i))

C9_Witness ==
  \E i \in 1..Len(sections) :
    /\ HasTable(i)
    /\ Rewritten(i)
    /\ MetaTouched(i)
    /\ pass[i] = "done"

(***************************************************************************)
(* C10: once setConfig has run with a configuration that holds the root    *)
(* prefix, getLocale has not failed and has resolved one entry: the        *)
(* metadata-declared locale when one is declared, else the longest         *)
(* configured prefix p with the path starting with p followed by "/", else *)
(* the root; its prefix is a key of the configuration and the document     *)
(* language is that entry's lang (when it has one).                        *)
(***************************************************************************)
C10_LocaleResolved ==
  (pc \notin {"start", "setConfig"} /\ <<>> \in DOMAIN conf.locales) =>
    /\ pc # "failed"
    /\ config.set
    /\ config.locale.prefix \in DOMAIN conf.locales
    /\ IF metaLocale # <<>> THEN config.locale.prefix = metaLocale
       ELSE /\ StartsWith(location.pathname, config.locale.prefix \o <<"/">>)
            /\ \A p \in DOMAIN conf.locales :
                 StartsWith(location.pathname, p \o <<"/">>)
                   => StrLen(p) <= StrLen(config.locale.prefix)
    /\ config.locale.lang = conf.locales[config.locale.prefix].lang
    /\ config.locale.lang # "" => docLang = config.locale.lang

(***************************************************************************)
(* C11: after decorateLinks on a section, every anchor whose decoration    *)
(* failed (its href is no absolute URL, or a later step threw) is logged,  *)
(* has the href, target and classes it had before, and is not among        *)
(* section.widgets; every other anchor, also one behind a failing anchor,  *)
(* is decorated; and no exception has left decorateLinks: the section is   *)
(* linked and loadEager has not failed.                                    *)
(***************************************************************************)
C11_FailuresContained ==
  \A i \in 1..Len(sections) :
    LinksDone(i) =>
      /\ pc # "failed"
      /\ Len(FinalAnchors(i)) = Len(OrigAnchors(i))
      /\ \A k \in 1..Len(OrigAnchors(i)) :
           LET a0 == OrigAnchors(i)[k]
               a1 == FinalAnchors(i)[k]
           IN IF Failed(a0)
              THEN /\ \E n \in 1..Len(log) : log[n] = a0.id
                   /\ SameLink(a1, a0)
                   /\ \A n \in 1..Len(sections[i].widgets) :
                        sections[i].widgets[n] # a0.id
              ELSE SameLink(a1, decorateLink(config, a0, location).a)

====
